---------------------------- MODULE Spec2Model ----------------------------
(***************************************************************************)
(* Session orchestration layer of the loan-processing assistant:           *)
(*   - SessionDocumentStore   (app/services/session_document_store.py)     *)
(*   - DocumentIntelligenceService.analyze_document and upload_document    *)
(*   - AgentService.chat and the chat endpoint                             *)
(*   - the tools declared to the agent                                     *)
(* Text (session ids, exception messages) is a sequence of one-character   *)
(* strings, so that strip(), lower() and the `in` substring test are       *)
(* computed, not assumed.                                                  *)
(***************************************************************************)
EXTENDS Integers, Sequences, FiniteSets, TLC

VARIABLES
    store,          \* SessionDocumentStore._store: session id -> list of documents
    last_access,    \* SessionDocumentStore._last_access: session id -> time
    max_age,        \* SessionDocumentStore.SESSION_MAX_AGE_HOURS (None = disabled)
    now,            \* the clock read by datetime.now(), in hours
    added,          \* history: add_document calls accepted per session since it was created
    ret,            \* the last operation of the store with its result
    cache,          \* DocumentCache: cache key -> serialized DocumentAnalysisResponse
    analyses,       \* history: the analyze_document calls so far, in order
    uploads,        \* history: successful uploads per client session, and the last response
    ctx,            \* current_session_id as each request task sees it
    turns,          \* the chat request each task handles: its position and its outcome
    checkpoints,    \* the checkpointer: per thread_id the turns saved, and bookkeeping of turns
    tool_ret,       \* the last tool invocation with its result
    calls,          \* each provider client's call in progress: attempts made and its outcome
    loop            \* the event loop thread: free, or held by a handler that has not yielded

storeVars == <<store, last_access, max_age, now, added, ret>>

analyzeVars == <<cache, analyses, uploads>>

chatVars == <<ctx, turns, checkpoints>>

restVars == <<calls, loop>>

otherThanStore == <<analyzeVars, chatVars, tool_ret, restVars>>

vars == <<store, last_access, max_age, now, added, ret, cache, analyses, uploads, ctx, turns, checkpoints,
          tool_ret, calls, loop>>

-----------------------------------------------------------------------------
(* Text helpers                                                            *)

\* None, as the value of an Optional: the empty tuple; a present value v is <<v>>
None == <<>>

Whitespace == {" ", "\t", "\n"}

RECURSIVE LStrip(_)
LStrip(s) == IF s # <<>> /\ Head(s) \in Whitespace THEN LStrip(Tail(s)) ELSE s

RECURSIVE RStrip(_)
RStrip(s) ==
    IF s # <<>> /\ s[Len(s)] \in Whitespace THEN RStrip(SubSeq(s, 1, Len(s) - 1)) ELSE s

\* str.strip()
Strip(s) == RStrip(LStrip(s))

\* Python truthiness of a str
Truthy(s) == s # <<>>

\* str.lower()
UpperCase == <<"A", "B", "C", "D", "E", "F", "G", "H", "I", "J", "K", "L", "M",
               "N", "O", "P", "Q", "R", "S", "T", "U", "V", "W", "X", "Y", "Z">>

LowerCase == <<"a", "b", "c", "d", "e", "f", "g", "h", "i", "j", "k", "l", "m",
               "n", "o", "p", "q", "r", "s", "t", "u", "v", "w", "x", "y", "z">>

LowerChar(c) ==
    IF \E i \in 1..26 : UpperCase[i] = c
    THEN LowerCase[CHOOSE i \in 1..26 : UpperCase[i] = c]
    ELSE c

Lower(s) == [i \in 1..Len(s) |-> LowerChar(s[i])]

\* needle in hay
Contains(needle, hay) ==
    \E i \in 0..(Len(hay) - Len(needle)) : SubSeq(hay, i + 1, i + Len(needle)) = needle

-----------------------------------------------------------------------------
(* SessionDocumentStore                                                    *)

MAX_DOCUMENTS_PER_SESSION == 20

\* bounds of the model
MaxAdds == 22          \* add_document calls accepted per session between two clears
VariedUploads == 1     \* the first uploads of a session choose their document kind freely

SessionA == <<"A">>
SessionB == <<"B">>

RealSessions == {SessionA, SessionB}

\* session ids the callers pass: two real sessions, the empty and a blank id
SessionIds == {SessionA, SessionB, <<>>, <<" ">>}

DocumentTypes == {"bank_statement", "prebuilt-layout"}

\* the analysis handed over for a document of a kind (model_dump of the result)
AnalysisOf(kind) == [document_type |-> kind, fields |-> IF kind = "bank_statement" THEN "mapping" ELSE "empty"]

\* SessionDocument(filename, document_type, upload_timestamp, analysis)
SessionDocument(filename, kind, ts, analysis) ==
    [filename |-> filename, document_type |-> kind, upload_timestamp |-> ts, analysis |-> analysis]

\* dict.get(session_id, [])
StoreGet(st, s) == IF s \in DOMAIN st THEN st[s] ELSE <<>>

\* del d[k]
Del(d, k) == [x \in (DOMAIN d) \ {k} |-> d[x]]

\* d[k] = v
Put(d, k, v) == [x \in (DOMAIN d) \cup {k} |-> IF x = k THEN v ELSE d[x]]

\* _cleanup_expired_sessions: the sessions whose last access is older than the threshold
ExpiredSessionsAlways(la, age, t) == {s \in DOMAIN la : t - la[s] > 0}

ExpiredSessions(la, age, t) ==
    IF age = None THEN {} ELSE {s \in DOMAIN la : t - la[s] > age[1]}

RECURSIVE DelAll(_, _)
DelAll(d, ks) ==
    IF ks = {} THEN d
    ELSE LET k == CHOOSE x \in ks : TRUE
         IN  DelAll(IF k \in DOMAIN d THEN Del(d, k) ELSE d, ks \ {k})

\* _cleanup_expired_sessions, as a function of the two maps
cleanup_skipped(st, la, age, t) == [store |-> st, last_access |-> la]

cleanup_expired_sessions(st, la, age, t) ==
    LET expired == ExpiredSessions(la, age, t)
    IN  [store |-> DelAll(st, expired), last_access |-> DelAll(la, expired)]

\* the session id check of add_document
SessionIdRejectedLax(s) == ~Truthy(s)

SessionIdRejected(s) == ~Truthy(s) \/ ~Truthy(Strip(s))

\* the document limit check of add_document
AtCapacityNever(docs) == FALSE

AtCapacity(docs) == Len(docs) >= MAX_DOCUMENTS_PER_SESSION

\* list.pop(0)
PopNewest(docs) == SubSeq(docs, 1, Len(docs) - 1)

PopOldestTwo(docs) == Tail(Tail(docs))

PopOldest(docs) == Tail(docs)

\* the list of the session after the limit check and the append
AppendedShared(st, s, doc) ==
    [x \in DOMAIN st |-> (IF AtCapacity(st[x]) THEN PopOldest(st[x]) ELSE st[x]) \o <<doc>>]

Appended(st, s, doc) ==
    LET docs == st[s]
    IN  Put(st, s, (IF AtCapacity(docs) THEN PopOldest(docs) ELSE docs) \o <<doc>>)

\* add_document(session_id, filename, document_type, analysis)
add_document(s, filename, kind, analysis) ==
    IF SessionIdRejected(s)
    THEN /\ ret' = [op |-> "add_document", session |-> s, raised |-> "ValueError", value |-> <<>>]
         /\ UNCHANGED <<store, last_access, max_age, now, added>>
    ELSE LET cleaned == cleanup_expired_sessions(store, last_access, max_age, now)
             created == IF s \in DOMAIN cleaned.store THEN cleaned.store
                        ELSE Put(cleaned.store, s, <<>>)
             doc     == SessionDocument(filename, kind, now, analysis)
         IN  /\ store' = Appended(created, s, doc)
             /\ last_access' = Put(cleaned.last_access, s, now)
             /\ added' = [x \in DOMAIN added |->
                            IF x = s THEN (IF s \in DOMAIN cleaned.store THEN added[s] ELSE 0) + 1
                            ELSE IF x \in DOMAIN cleaned.store THEN added[x] ELSE 0]
             /\ ret' = [op |-> "add_document", session |-> s, raised |-> "none", value |-> <<doc>>,
                        pruned |-> (DOMAIN store) \ (DOMAIN cleaned.store)]
             /\ UNCHANGED <<max_age, now>>

\* get_documents(session_id): the returned list and the last-access update
get_documents_result(st, s) == StoreGet(st, s)

get_documents_touch(st, la, s, t) == IF s \in DOMAIN st THEN Put(la, s, t) ELSE la

get_documents(s) ==
    /\ last_access' = get_documents_touch(store, last_access, s, now)
    /\ ret' = [op |-> "get_documents", session |-> s, raised |-> "none",
               value |-> get_documents_result(store, s)]
    /\ UNCHANGED <<store, max_age, now, added>>

\* get_latest_document(session_id): docs[-1] or None
LatestOfFirst(docs) == IF docs # <<>> THEN <<docs[1]>> ELSE <<>>

LatestOf(docs) == IF docs # <<>> THEN <<docs[Len(docs)]>> ELSE <<>>

get_latest_document(s) ==
    /\ last_access' = get_documents_touch(store, last_access, s, now)
    /\ ret' = [op |-> "get_latest_document", session |-> s, raised |-> "none",
               value |-> LatestOf(get_documents_result(store, s))]
    /\ UNCHANGED <<store, max_age, now, added>>

\* clear_session(session_id)
ClearedAll(st, s) == [x \in {} |-> <<>>]

Cleared(st, s) == IF s \in DOMAIN st THEN Del(st, s) ELSE st

clear_session(s) ==
    /\ store' = Cleared(store, s)
    /\ added' = [x \in DOMAIN added |-> IF x \in DOMAIN store' THEN added[x] ELSE 0]
    /\ ret' = [op |-> "clear_session", session |-> s, raised |-> "none", value |-> <<>>]
    /\ UNCHANGED <<last_access, max_age, now>>

\* cleanup_all_expired(): the number of sessions removed
cleanup_all_expired ==
    LET cleaned == cleanup_expired_sessions(store, last_access, max_age, now)
        initial_count == Cardinality(DOMAIN store)
    IN  /\ store' = cleaned.store
        /\ last_access' = cleaned.last_access
        /\ added' = [x \in DOMAIN added |-> IF x \in DOMAIN cleaned.store THEN added[x] ELSE 0]
        /\ ret' = [op |-> "cleanup_all_expired", session |-> <<>>, raised |-> "none",
                   value |-> <<initial_count - Cardinality(DOMAIN cleaned.store)>>]
        /\ UNCHANGED <<max_age, now>>

\* SessionDocumentStore.__init__ with the class defaults
StoreInit ==
    /\ store = [x \in {} |-> <<>>]
    /\ last_access = [x \in {} |-> 0]
    /\ max_age = None
    /\ now = 0
    /\ added = [s \in SessionIds |-> 0]
    /\ ret = [op |-> "init", session |-> <<>>, raised |-> "none", value |-> <<>>]

\* the callers of the store: the n-th document added to session s is the file "s-n"
FileName(s, n) == [owner |-> s, n |-> n]

FileNames(docs) == {docs[i].filename : i \in 1..Len(docs)}

AddDocument ==
    /\ \E s \in SessionIds :
          /\ added[s] < MaxAdds
          /\ \E kind \in (IF added[s] < VariedUploads THEN DocumentTypes ELSE {"prebuilt-layout"}) :
                add_document(s, FileName(s, added[s] + 1), kind, AnalysisOf(kind))
    /\ UNCHANGED otherThanStore

GetDocuments == (\E s \in SessionIds : get_documents(s)) /\ UNCHANGED otherThanStore

GetLatestDocument == (\E s \in SessionIds : get_latest_document(s)) /\ UNCHANGED otherThanStore

ClearSession == (\E s \in SessionIds : clear_session(s)) /\ UNCHANGED otherThanStore

CleanupAllExpired == cleanup_all_expired /\ UNCHANGED otherThanStore

\* a deployment that sets SESSION_MAX_AGE_HOURS: the store with expiry enabled
MaxAgeHours == 1       \* the configured SESSION_MAX_AGE_HOURS
MaxClock == 3          \* hours the clock advances in one run
MaxExpiryAdds == 2     \* add_document calls accepted per session while expiry is enabled

ExpiryStoreInit ==
    /\ store = [x \in {} |-> <<>>]
    /\ last_access = [x \in {} |-> 0]
    /\ max_age = <<MaxAgeHours>>
    /\ now = 0
    /\ added = [s \in SessionIds |-> 0]
    /\ ret = [op |-> "init", session |-> <<>>, raised |-> "none", value |-> <<>>]

\* time passes between two calls: datetime.now() grows
Tick ==
    /\ now < MaxClock
    /\ now' = now + 1
    /\ UNCHANGED <<store, last_access, max_age, added, ret>>
    /\ UNCHANGED otherThanStore

AddDocumentExpiring ==
    /\ \E s \in SessionIds :
          /\ added[s] < MaxExpiryAdds
          /\ add_document(s, FileName(s, added[s] + 1), "prebuilt-layout", AnalysisOf("prebuilt-layout"))
    /\ UNCHANGED otherThanStore

-----------------------------------------------------------------------------
(* DocumentIntelligenceService.analyze_document and the document cache     *)

\* bounds of the model
MaxAnalyses == 3       \* analyze_document calls in one run

Contents == {"X", "Y"}

\* DocumentIntelligenceService.MODEL_MAP.get(document_type, document_type)
ModelId(kind) ==
    IF kind = "bank_statement" THEN "prebuilt-bankStatement.us" ELSE kind

\* what begin_analyze_document / poller.result() / _extract_result can do on a call:
\* hand back the analysis, or raise
ProviderOutcomes ==
    {[type |-> "ok", status |-> 0, message |-> <<>>],
     [type |-> "HttpResponseError", status |-> 429, message |-> <<"too many requests">>],
     [type |-> "HttpResponseError", status |-> 408, message |-> <<"request timeout">>],
     [type |-> "HttpResponseError", status |-> 400, message |-> <<"invalid content">>],
     [type |-> "ServiceResponseError", status |-> 0, message |-> <<"connection reset">>],
     [type |-> "AttributeError", status |-> 0, message |-> <<"no attribute">>]}

NoError == [type |-> "none", status |-> 0, message |-> <<>>]

\* _extract_result(result, document_type, model_id)
ExtractResult(content, kind, model_id) ==
    [document_type |-> kind, model_id |-> model_id, content |-> content]

\* DocumentCache.get_cache_key: fingerprint of the file content and the document kind
CacheKey(content, kind) == <<content, kind>>

\* DocumentCache.save / load: the response as stored text and back
Serialize(response) == <<"json", response.document_type, response.model_id, response.content>>

Deserialize(text) == [document_type |-> text[2], model_id |-> text[3], content |-> text[4]]

CacheLoad(c, key) == IF key \in DOMAIN c THEN <<Deserialize(c[key])>> ELSE <<>>

CacheSaveSkipped(c, key, response) == c

CacheSave(c, key, response) == Put(c, key, Serialize(response))

\* the except clauses of analyze_document: the exception that leaves the method
Raised(e) ==
    IF e.type = "HttpResponseError"
    THEN [type |-> "AzureError", status |-> 0,
          message |-> IF e.status = 429
                        THEN <<"Service rate limit exceeded. Please try again later. ">> \o e.message
                      ELSE IF e.status = 408
                        THEN <<"Request timed out. The document may be too large or complex. ">> \o e.message
                      ELSE <<"Document Intelligence service error: ">> \o e.message]
    ELSE IF e.type = "ServiceResponseError"
    THEN [type |-> "ServiceResponseError", status |-> 0,
          message |-> <<"Unable to connect to Document Intelligence service: ">> \o e.message]
    ELSE e

\* the cache check of analyze_document: the cached response that is returned at once
CachedResultIgnored(c, key) == <<>>

CachedResult(c, key) == CacheLoad(c, key)

\* the cache after a failed provider call
CacheAfterFailureNegative(c, key, e) == Put(c, key, <<"json", "error", e.type, "">>)

CacheAfterFailure(c, key, e) == c

\* analyze_document(file_path, document_type) on a file holding `content`, when the
\* provider would answer `outcome`: the call as the caller sees it, and the cache after it
analyze_document(c, content, kind, outcome) ==
    LET model_id == ModelId(kind)
        key      == CacheKey(content, kind)
        cached   == CachedResult(c, key)
    IN  IF cached # <<>>
        THEN [cache |-> c,
              call  |-> [key |-> key, hit |-> TRUE, provider_calls |-> 0,
                         provider_raised |-> NoError, raised |-> NoError, result |-> cached]]
        ELSE IF outcome.type = "ok"
        THEN LET response == ExtractResult(content, kind, model_id)
             IN  [cache |-> CacheSave(c, key, response),
                  call  |-> [key |-> key, hit |-> FALSE, provider_calls |-> 1,
                             provider_raised |-> NoError, raised |-> NoError,
                             result |-> <<response>>]]
        ELSE [cache |-> CacheAfterFailure(c, key, outcome),
              call  |-> [key |-> key, hit |-> FALSE, provider_calls |-> 1,
                         provider_raised |-> outcome, raised |-> Raised(outcome),
                         result |-> <<>>]]

AnalyzeInit ==
    /\ cache = [x \in {} |-> <<>>]
    /\ analyses = <<>>
    /\ uploads = [ok |-> [s \in RealSessions |-> 0], last |-> "none", temp_left |-> FALSE]

\* a caller (the analysis tool, a script) analyzes a file
AnalyzeDocument ==
    /\ Len(analyses) < MaxAnalyses
    /\ \E content \in Contents, kind \in DocumentTypes, outcome \in ProviderOutcomes :
          LET r == analyze_document(cache, content, kind, outcome)
          IN  /\ cache' = r.cache
              /\ analyses' = Append(analyses, r.call)
    /\ UNCHANGED <<uploads, storeVars, chatVars, tool_ret, restVars>>

\* validate_file_extension(filename)
ValidExtension(ext) == ext \in {".pdf", ".png", ".jpg", ".jpeg", ".tiff", ".bmp"}

\* upload_document(file, document_type): the response, the analysis it ran and the
\* registry after it. `session` is the session the client uploads for.
RegistryAfterUpload(st, session, filename, kind, response) == st

\* the temporary file of one request: NamedTemporaryFile(delete=False) creates it,
\* then the content is read and written inside the with block, and temp_file_path
\* is assigned only after both
IoOutcomes == {"ok", "read_raises", "write_raises"}

TempFile(io) == [created |-> TRUE, temp_file_path |-> IF io = "ok" THEN <<"tmp">> ELSE None]

\* the finally block: unlink when temp_file_path is set; TRUE when the file stays
TempFileLeft(tmp) == tmp.created /\ (tmp.temp_file_path = None)

upload_document(session, filename, ext, content, kind, outcome, io) ==
    IF ~ValidExtension(ext)
    THEN /\ uploads' = [uploads EXCEPT !.last = "400", !.temp_left = FALSE]
         /\ UNCHANGED <<cache, analyses, storeVars, chatVars, tool_ret, restVars>>
    ELSE IF io # "ok"
    THEN /\ uploads' = [uploads EXCEPT !.last = "failed", !.temp_left = TempFileLeft(TempFile(io))]
         /\ UNCHANGED <<cache, analyses, storeVars, chatVars, tool_ret, restVars>>
    ELSE LET r  == analyze_document(cache, content, kind, outcome)
             ok == r.call.raised = NoError
         IN  /\ cache' = r.cache
             /\ analyses' = Append(analyses, r.call)
             /\ uploads' = IF ok THEN [ok |-> [uploads.ok EXCEPT ![session] = @ + 1],
                                       last |-> "success",
                                       temp_left |-> TempFileLeft(TempFile(io))]
                           ELSE [uploads EXCEPT !.last = "failed",
                                                !.temp_left = TempFileLeft(TempFile(io))]
             /\ store' = IF ok THEN RegistryAfterUpload(store, session, filename, kind, r.call.result[1])
                         ELSE store
             /\ UNCHANGED <<last_access, max_age, now, added, ret, chatVars, tool_ret, restVars>>

UploadDocument ==
    /\ Len(analyses) < MaxAnalyses
    /\ \E session \in RealSessions, ext \in {".pdf", ".exe"}, content \in Contents,
          kind \in DocumentTypes, outcome \in ProviderOutcomes, io \in IoOutcomes :
          upload_document(session, FileName(session, uploads.ok[session] + 1), ext, content, kind, outcome, io)

\* the event loop runs one handler at a time; a handler gives the thread back only
\* where it awaits
MaxLoopUploads == 1    \* uploads reaching the provider while chat turns run

LoopFree == [holder |-> "none", session |-> <<>>, content |-> "", kind |-> ""]

EventLoopFree == loop.holder = "none"

LoopInit == loop = LoopFree

\* upload_document up to the provider call of analyze_document on a cache miss:
\* begin_analyze_document and poller.result() are calls of the synchronous client,
\* made without await, so the handler keeps the thread while it waits
OcrCallBegins ==
    /\ EventLoopFree
    /\ Len(analyses) < MaxLoopUploads
    /\ \E session \in RealSessions, content \in Contents, kind \in DocumentTypes :
          /\ CachedResult(cache, CacheKey(content, kind)) = None
          /\ loop' = [holder |-> "upload", session |-> session, content |-> content, kind |-> kind]
    /\ UNCHANGED <<calls, storeVars, analyzeVars, chatVars, tool_ret>>

\* the provider call returns or raises and upload_document runs to its end
OcrCallReturns ==
    /\ loop.holder = "upload"
    /\ \E outcome \in ProviderOutcomes :
          LET r  == analyze_document(cache, loop.content, loop.kind, outcome)
              ok == r.call.raised = NoError
          IN  /\ cache' = r.cache
              /\ analyses' = Append(analyses, r.call)
              /\ uploads' = IF ok THEN [ok |-> [uploads.ok EXCEPT ![loop.session] = @ + 1],
                                        last |-> "success",
                                        temp_left |-> TempFileLeft(TempFile("ok"))]
                            ELSE [uploads EXCEPT !.last = "failed",
                                                 !.temp_left = TempFileLeft(TempFile("ok"))]
    /\ loop' = LoopFree
    /\ UNCHANGED <<calls, storeVars, chatVars, tool_ret>>

-----------------------------------------------------------------------------
(* AgentService.chat and the chat endpoint                                 *)

\* bounds of the model
MaxSeed == 2           \* documents in the registry while chat turns run
MaxToolCalls == 1      \* document-fetch tool calls the agent makes in one turn

\* the request tasks the server runs, one per chat request
Tasks == {1, 2}

\* "timeout"
KwTimeout ==
    <<"t", "i", "m", "e", "o", "u", "t">>

\* "rate limit"
KwRateLimit ==
    <<"r", "a", "t", "e", " ", "l", "i", "m", "i", "t">>

\* "429"
Kw429 ==
    <<"4", "2", "9">>

\* "connection"
KwConnection ==
    <<"c", "o", "n", "n", "e", "c", "t", "i", "o", "n">>

\* "network"
KwNetwork ==
    <<"n", "e", "t", "w", "o", "r", "k">>

\* the message raised when wait_for times out (agent_service.py 347-350)
\* "I apologize, but processing your request is taking longer than expected. This might be due to high service load. Please try again in a moment."
TimeoutApology ==
    <<"I", " ", "a", "p", "o", "l", "o", "g", "i", "z", "e", ",", " ", "b", "u", "t", " ", "p",
      "r", "o", "c", "e", "s", "s", "i", "n", "g", " ", "y", "o", "u", "r", " ", "r", "e", "q",
      "u", "e", "s", "t", " ", "i", "s", " ", "t", "a", "k", "i", "n", "g", " ", "l", "o", "n",
      "g", "e", "r", " ", "t", "h", "a", "n", " ", "e", "x", "p", "e", "c", "t", "e", "d", ".",
      " ", "T", "h", "i", "s", " ", "m", "i", "g", "h", "t", " ", "b", "e", " ", "d", "u", "e",
      " ", "t", "o", " ", "h", "i", "g", "h", " ", "s", "e", "r", "v", "i", "c", "e", " ", "l",
      "o", "a", "d", ".", " ", "P", "l", "e", "a", "s", "e", " ", "t", "r", "y", " ", "a", "g",
      "a", "i", "n", " ", "i", "n", " ", "a", " ", "m", "o", "m", "e", "n", "t", ".">>

\* the messages of the error classification (agent_service.py 385-408)
\* "The request took too long to process. Please try again with a simpler question or contact support if the issue persists."
MsgTimeout ==
    <<"T", "h", "e", " ", "r", "e", "q", "u", "e", "s", "t", " ", "t", "o", "o", "k", " ", "t",
      "o", "o", " ", "l", "o", "n", "g", " ", "t", "o", " ", "p", "r", "o", "c", "e", "s", "s",
      ".", " ", "P", "l", "e", "a", "s", "e", " ", "t", "r", "y", " ", "a", "g", "a", "i", "n",
      " ", "w", "i", "t", "h", " ", "a", " ", "s", "i", "m", "p", "l", "e", "r", " ", "q", "u",
      "e", "s", "t", "i", "o", "n", " ", "o", "r", " ", "c", "o", "n", "t", "a", "c", "t", " ",
      "s", "u", "p", "p", "o", "r", "t", " ", "i", "f", " ", "t", "h", "e", " ", "i", "s", "s",
      "u", "e", " ", "p", "e", "r", "s", "i", "s", "t", "s", ".">>

\* "Our service is currently experiencing high demand. Please wait a moment and try again."
MsgRateLimit ==
    <<"O", "u", "r", " ", "s", "e", "r", "v", "i", "c", "e", " ", "i", "s", " ", "c", "u", "r",
      "r", "e", "n", "t", "l", "y", " ", "e", "x", "p", "e", "r", "i", "e", "n", "c", "i", "n",
      "g", " ", "h", "i", "g", "h", " ", "d", "e", "m", "a", "n", "d", ".", " ", "P", "l", "e",
      "a", "s", "e", " ", "w", "a", "i", "t", " ", "a", " ", "m", "o", "m", "e", "n", "t", " ",
      "a", "n", "d", " ", "t", "r", "y", " ", "a", "g", "a", "i", "n", ".">>

\* "Unable to connect to AI services. Please check your internet connection and try again."
MsgConnection ==
    <<"U", "n", "a", "b", "l", "e", " ", "t", "o", " ", "c", "o", "n", "n", "e", "c", "t", " ",
      "t", "o", " ", "A", "I", " ", "s", "e", "r", "v", "i", "c", "e", "s", ".", " ", "P", "l",
      "e", "a", "s", "e", " ", "c", "h", "e", "c", "k", " ", "y", "o", "u", "r", " ", "i", "n",
      "t", "e", "r", "n", "e", "t", " ", "c", "o", "n", "n", "e", "c", "t", "i", "o", "n", " ",
      "a", "n", "d", " ", "t", "r", "y", " ", "a", "g", "a", "i", "n", ".">>

\* "I encountered an error processing your message. Please try rephrasing your question or contact support if the issue continues."
MsgGeneric ==
    <<"I", " ", "e", "n", "c", "o", "u", "n", "t", "e", "r", "e", "d", " ", "a", "n", " ", "e",
      "r", "r", "o", "r", " ", "p", "r", "o", "c", "e", "s", "s", "i", "n", "g", " ", "y", "o",
      "u", "r", " ", "m", "e", "s", "s", "a", "g", "e", ".", " ", "P", "l", "e", "a", "s", "e",
      " ", "t", "r", "y", " ", "r", "e", "p", "h", "r", "a", "s", "i", "n", "g", " ", "y", "o",
      "u", "r", " ", "q", "u", "e", "s", "t", "i", "o", "n", " ", "o", "r", " ", "c", "o", "n",
      "t", "a", "c", "t", " ", "s", "u", "p", "p", "o", "r", "t", " ", "i", "f", " ", "t", "h",
      "e", " ", "i", "s", "s", "u", "e", " ", "c", "o", "n", "t", "i", "n", "u", "e", "s", ".">>

\* the details of the chat endpoint (chat_router.py 94, 100, 132)
\* "Message cannot be empty"
DetailEmptyMessage ==
    <<"M", "e", "s", "s", "a", "g", "e", " ", "c", "a", "n", "n", "o", "t", " ", "b", "e", " ",
      "e", "m", "p", "t", "y">>

\* "Session ID is required"
DetailNoSession ==
    <<"S", "e", "s", "s", "i", "o", "n", " ", "I", "D", " ", "i", "s", " ", "r", "e", "q", "u",
      "i", "r", "e", "d">>

\* "Failed to process chat message: "
DetailPrefix ==
    <<"F", "a", "i", "l", "e", "d", " ", "t", "o", " ", "p", "r", "o", "c", "e", "s", "s", " ",
      "c", "h", "a", "t", " ", "m", "e", "s", "s", "a", "g", "e", ":", " ">>

\* str(e) of exceptions the agent invocation raises: provider and library errors
\* "Request timed out."
ErrTimedOut ==
    <<"R", "e", "q", "u", "e", "s", "t", " ", "t", "i", "m", "e", "d", " ", "o", "u", "t", ".">>

\* "Connection error."
ErrConnection ==
    <<"C", "o", "n", "n", "e", "c", "t", "i", "o", "n", " ", "e", "r", "r", "o", "r", ".">>

\* "Error code: 429 - Rate limit reached for gpt-4"
ErrRateLimit ==
    <<"E", "r", "r", "o", "r", " ", "c", "o", "d", "e", ":", " ", "4", "2", "9", " ", "-", " ",
      "R", "a", "t", "e", " ", "l", "i", "m", "i", "t", " ", "r", "e", "a", "c", "h", "e", "d",
      " ", "f", "o", "r", " ", "g", "p", "t", "-", "4">>

\* "Read Timeout on network socket"
ErrReadTimeout ==
    <<"R", "e", "a", "d", " ", "T", "i", "m", "e", "o", "u", "t", " ", "o", "n", " ", "n", "e",
      "t", "w", "o", "r", "k", " ", "s", "o", "c", "k", "e", "t">>

\* "Incorrect API key provided: sk-1234"
ErrApiKey ==
    <<"I", "n", "c", "o", "r", "r", "e", "c", "t", " ", "A", "P", "I", " ", "k", "e", "y", " ",
      "p", "r", "o", "v", "i", "d", "e", "d", ":", " ", "s", "k", "-", "1", "2", "3", "4">>

InternalErrors == {ErrTimedOut, ErrConnection, ErrRateLimit, ErrReadTimeout, ErrApiKey}

\* the reply of the agent, response["messages"][-1].content
AgentReply ==
    <<"O", "K">>

\* request bodies of the chat endpoint
ChatMessages == {<<"h", "i">>, <<" ">>, <<>>}

ChatSessionIds == {SessionA, SessionB, <<" ">>, <<>>}

\* the clauses of the except block tested in another order
ErrorBranchConnectionFirst(error_msg) ==
    IF Contains(KwConnection, Lower(error_msg)) \/ Contains(KwNetwork, Lower(error_msg))
    THEN "connection"
    ELSE IF Contains(KwRateLimit, Lower(error_msg)) \/ Contains(Kw429, error_msg) THEN "rate_limit"
    ELSE IF Contains(KwTimeout, Lower(error_msg)) THEN "timeout"
    ELSE "generic"

\* the except clause of chat: the branch taken for str(e)
ErrorBranch(error_msg) ==
    IF Contains(KwTimeout, Lower(error_msg)) THEN "timeout"
    ELSE IF Contains(KwRateLimit, Lower(error_msg)) \/ Contains(Kw429, error_msg) THEN "rate_limit"
    ELSE IF Contains(KwConnection, Lower(error_msg)) \/ Contains(KwNetwork, Lower(error_msg))
         THEN "connection"
    ELSE "generic"

\* the branch of every text the model raises, computed once
BranchTable == [error_msg \in InternalErrors \cup {TimeoutApology} |-> ErrorBranch(error_msg)]

\* the message of the exception each branch raises
BranchMessageLeaky(branch, error_msg) ==
    IF branch = "timeout" THEN MsgTimeout
    ELSE IF branch = "rate_limit" THEN MsgRateLimit
    ELSE IF branch = "connection" THEN MsgConnection
    ELSE MsgGeneric \o error_msg

BranchMessage(branch, error_msg) ==
    IF branch = "timeout" THEN MsgTimeout
    ELSE IF branch = "rate_limit" THEN MsgRateLimit
    ELSE IF branch = "connection" THEN MsgConnection
    ELSE MsgGeneric

\* the exception handler of the chat endpoint: the detail of the HTTP 500
RouterDetail(e) == DetailPrefix \o e

\* current_session_id.set(session_id) in the task that runs the turn: a ContextVar
\* is bound per task
ContextSetGlobal(c, task, value) == [x \in DOMAIN c |-> value]

ContextSet(c, task, value) == [c EXCEPT ![task] = value]

\* current_session_id.get() in the tool, which runs in the context of its turn
ContextGet(c, task) == c[task]

MaxTurns == 3          \* chat requests after which no further request is taken up by a used task

\* thread_id of the agent invocation: {"configurable": {"thread_id": session_id}}
ThreadIdShared(session_id) == SessionA

ThreadId(session_id) == session_id

Threads == RealSessions

\* the turn a request contributes to the history of its thread
TurnOf(session_id, ticket) == [session |-> session_id, n |-> ticket]

\* the checkpointer when the agent is created: InMemorySaver()
NoCheckpoints ==
    [saved      |-> [th \in Threads |-> <<>>],
     completed  |-> [th \in Threads |-> <<>>],
     overlapped |-> [th \in Threads |-> FALSE],
     submitted  |-> 0]

\* the invocation starts from the checkpoint stored under its thread_id
CheckpointLoad(cp, thread_id) == cp.saved[thread_id]

\* the invocation ends: the state it started from, with its own turn, is stored
\* under its thread_id
CheckpointSave(cp, thread_id, seen, turn) ==
    [cp EXCEPT !.saved[thread_id] = seen \o <<turn>>]

\* an HTTPException raised by the validation passes `except HTTPException: raise`
RejectedResponseAs500(detail) ==
    [status |-> 500, text |-> DetailPrefix \o detail, session_id |-> <<>>]

RejectedResponse(detail) == [status |-> 400, text |-> detail, session_id |-> <<>>]

IdleTurn ==
    [pc |-> "idle", request_message |-> <<>>, request_session |-> <<>>, session |-> <<>>, fetched |-> <<>>,
     thread |-> <<>>, ticket |-> 0, seen |-> <<>>,
     cause |-> "none", internal |-> <<>>, branch |-> "none", raised |-> <<>>,
     response |-> [status |-> 0, text |-> <<>>, session_id |-> <<>>]]

ChatInit ==
    /\ ctx = [task \in Tasks |-> <<>>]
    /\ turns = [task \in Tasks |-> IdleTurn]
    /\ checkpoints = NoCheckpoints

\* the chat endpoint up to the await of the agent invocation: validation, then
\* AgentService.chat sets the binding and invokes the agent with thread_id = session_id
ChatRequest(task, message, session_id) ==
    /\ EventLoopFree
    /\ turns[task].pc = "idle"
    /\ IF ~Truthy(message) \/ ~Truthy(Strip(message))
       THEN /\ turns' = [turns EXCEPT ![task] =
                           [@ EXCEPT !.pc = "done", !.request_message = message,
                                     !.request_session = session_id,
                                     !.cause = "rejected",
                                     !.response = RejectedResponse(DetailEmptyMessage)]]
            /\ UNCHANGED <<ctx, checkpoints>>
       ELSE IF ~Truthy(session_id) \/ ~Truthy(Strip(session_id))
       THEN /\ turns' = [turns EXCEPT ![task] =
                           [@ EXCEPT !.pc = "done", !.request_message = message,
                                     !.request_session = session_id,
                                     !.cause = "rejected",
                                     !.response = RejectedResponse(DetailNoSession)]]
            /\ UNCHANGED <<ctx, checkpoints>>
       ELSE LET thread_id == ThreadId(Strip(session_id))
                ticket    == checkpoints.submitted + 1
            IN  /\ ctx' = ContextSet(ctx, task, Strip(session_id))
                /\ turns' = [turns EXCEPT ![task] =
                               [@ EXCEPT !.pc = "invoking", !.request_message = message,
                                         !.request_session = session_id,
                                         !.session = Strip(session_id),
                                         !.thread = thread_id, !.ticket = ticket,
                                         !.seen = CheckpointLoad(checkpoints, thread_id)]]
                /\ checkpoints' =
                      [checkpoints EXCEPT
                         !.submitted = ticket,
                         !.overlapped[thread_id] =
                             @ \/ \E other \in Tasks \ {task} :
                                     /\ turns[other].pc = "invoking"
                                     /\ turns[other].thread = thread_id]
    /\ UNCHANGED <<storeVars, analyzeVars, tool_ret, restVars>>

\* get_analyzed_financial_documents_from_session(): the registry read of the tool
\* for the session id it finds in its context
FetchDocuments(task) ==
    /\ EventLoopFree
    /\ turns[task].pc = "invoking"
    /\ Len(turns[task].fetched) < MaxToolCalls
    /\ LET session_id == ContextGet(ctx, task)
           docs == get_documents_result(store, session_id)
       IN  /\ last_access' = get_documents_touch(store, last_access, session_id, now)
           /\ ret' = [op |-> "get_documents", session |-> session_id, raised |-> "none",
                      value |-> docs]
           /\ turns' = [turns EXCEPT ![task].fetched =
                           Append(@, [session_id |-> session_id, count |-> Len(docs),
                                      filenames |-> FileNames(docs)])]
    /\ UNCHANGED <<store, max_age, now, added, ctx, checkpoints, analyzeVars, tool_ret, restVars>>

\* the turn ends with the reply of the agent: ChatResponse(message, session_id)
AgentReplies(task) ==
    /\ EventLoopFree
    /\ turns[task].pc = "invoking"
    /\ turns' = [turns EXCEPT ![task] =
                   [@ EXCEPT !.pc = "done", !.cause = "reply",
                             !.response = [status |-> 200, text |-> AgentReply,
                                           session_id |-> turns[task].request_session]]]
    /\ LET turn == TurnOf(turns[task].session, turns[task].ticket)
           saved == CheckpointSave(checkpoints, turns[task].thread, turns[task].seen, turn)
       IN  checkpoints' = [saved EXCEPT !.completed[turns[task].session] = Append(@, turn)]
    /\ UNCHANGED <<ctx, storeVars, analyzeVars, tool_ret, restVars>>

\* an exception with text error_msg reaches `except Exception as e` of chat; the
\* exception chat raises reaches the handler of the endpoint
ChatFails(task, cause, error_msg) ==
    LET branch == BranchTable[error_msg]
    IN  turns' = [turns EXCEPT ![task] =
                    [@ EXCEPT !.pc = "done", !.cause = cause, !.internal = error_msg,
                              !.branch = branch,
                              !.raised = BranchMessage(branch, error_msg),
                              !.response = [status |-> 500,
                                            text |-> RouterDetail(BranchMessage(branch, error_msg)),
                                            session_id |-> <<>>]]]

\* the agent invocation raises
AgentRaises(task) ==
    /\ EventLoopFree
    /\ turns[task].pc = "invoking"
    /\ \E error_msg \in InternalErrors : ChatFails(task, "error", error_msg)
    /\ UNCHANGED <<ctx, checkpoints, storeVars, analyzeVars, tool_ret, restVars>>

AgentTimesOutNever(task) == FALSE /\ UNCHANGED vars

\* wait_for gives up after 90 s: asyncio.TimeoutError is caught inside the try block
\* of chat and the apology is raised there
AgentTimesOut(task) ==
    /\ EventLoopFree
    /\ turns[task].pc = "invoking"
    /\ ChatFails(task, "timeout", TimeoutApology)
    /\ UNCHANGED <<ctx, checkpoints, storeVars, analyzeVars, tool_ret, restVars>>

\* the response has been sent; the next request is handled by a fresh task whose
\* context starts from the default binding
NextRequest(task) ==
    /\ EventLoopFree
    /\ turns[task].pc = "done"
    /\ checkpoints.submitted < MaxTurns
    /\ turns' = [turns EXCEPT ![task] = IdleTurn]
    /\ ctx' = [ctx EXCEPT ![task] = <<>>]
    /\ UNCHANGED <<checkpoints, storeVars, analyzeVars, tool_ret, restVars>>

\* documents get into the registry while turns run
SeedDocument ==
    /\ \E s \in RealSessions :
          /\ Len(StoreGet(store, SessionA)) + Len(StoreGet(store, SessionB)) < MaxSeed
          /\ add_document(s, FileName(s, added[s] + 1), "bank_statement",
                          AnalysisOf("bank_statement"))
    /\ UNCHANGED otherThanStore

-----------------------------------------------------------------------------
(* The tools declared to the agent                                         *)

\* an exception, and the two ways a tool body ends
Exc(type, message) == [type |-> type, message |-> message]

RaiseExc(e) == [raised |-> TRUE, exc |-> e, payload |-> [none |-> TRUE]]

ReturnValue(payload) == [raised |-> FALSE, exc |-> Exc("none", <<>>), payload |-> payload]

\* what a provider call of a tool can do
EmbeddingOutcomes == {"ok", "APITimeoutError", "RateLimitError", "APIConnectionError", "KeyError"}

SearchOutcomes == {"ok", "empty", "HttpResponseError", "ServiceRequestError", "KeyError"}

LanguageOutcomes == {"ok", "is_error", "is_error_blank", "HttpResponseError", "ValueError"}

\* _generate_embedding(text): every failure leaves as an Exception with a message
generate_embedding(outcome) ==
    IF outcome = "ok" THEN ReturnValue([embedding |-> <<1, 2>>])
    ELSE IF outcome = "APITimeoutError"
         THEN RaiseExc(Exc("Exception", <<"Embedding generation timed out. Please try again.">>))
    ELSE IF outcome = "RateLimitError"
         THEN RaiseExc(Exc("Exception", <<"Service is currently busy. Please wait a moment and try again.">>))
    ELSE IF outcome = "APIConnectionError"
         THEN RaiseExc(Exc("Exception", <<"Unable to connect to Azure OpenAI service. Please check your connection.">>))
    ELSE RaiseExc(Exc("Exception", <<"Failed to generate embedding: ", outcome>>))

\* the except clauses of search_lending_policy
SearchExcept(e) ==
    IF e.type = "HttpResponseError"
    THEN ReturnValue([error |-> <<"Unable to search lending policies at this time. Please try again.">>,
                 results |-> <<>>, total_count |-> 0])
    ELSE IF e.type = "ServiceRequestError"
    THEN ReturnValue([error |-> <<"Search service is temporarily unavailable. Please try again in a moment.">>,
                 results |-> <<>>, total_count |-> 0])
    ELSE ReturnValue([error |-> <<"Search failed: ">> \o e.message, results |-> <<>>, total_count |-> 0])

\* search_lending_policy(query)
search_lending_policy(embedding, search) ==
    LET emb  == generate_embedding(embedding)
        body == IF emb.raised THEN emb
                ELSE IF search = "ok"
                     THEN ReturnValue([results |-> <<[title |-> "Rates", content |-> "text", score |-> 1]>>,
                                  total_count |-> 1])
                ELSE IF search = "empty"
                     THEN ReturnValue([results |-> <<>>, total_count |-> 0,
                                  message |-> <<"No matching policy information found. Please rephrase your question or contact support.">>])
                ELSE RaiseExc(Exc(search, <<search>>))
    IN  IF body.raised THEN SearchExcept(body.exc) ELSE body

\* get_language_client(): raises ValueError without credentials
LanguageClient(configured) ==
    IF configured THEN ReturnValue([client |-> TRUE])
    ELSE RaiseExc(Exc("ValueError", <<"Azure AI Language credentials not configured">>))

\* the message of the error of a response with is_error
ErrorMessage(outcome) == IF outcome = "is_error_blank" THEN <<>> ELSE <<"Invalid document">>

IsErrorResponse(outcome) == outcome \in {"is_error", "is_error_blank"}

\* the except clauses of the three language tools
LanguageExcept(what, e) ==
    IF e.type = "ValueError" THEN ReturnValue([error |-> e.message])
    ELSE ReturnValue([error |-> <<what, " failed: ">> \o e.message])

SentimentResult == [sentiment |-> "negative",
                    confidence_scores |-> [positive |-> 0, neutral |-> 1, negative |-> 9],
                    sentences |-> <<[text |-> "t", sentiment |-> "negative"]>>]

\* analyze_user_sentiment(text)
analyze_user_sentiment(configured, outcome) ==
    LET client == LanguageClient(configured)
        body   == IF client.raised THEN client
                  ELSE IF outcome = "ok" THEN ReturnValue(SentimentResult)
                  ELSE IF IsErrorResponse(outcome)
                       THEN ReturnValue([error |-> <<"Analysis failed: ">> \o ErrorMessage(outcome)])
                  ELSE RaiseExc(Exc(outcome, <<outcome>>))
    IN  IF body.raised THEN LanguageExcept("Sentiment analysis", body.exc) ELSE body

EntitiesByCategory == [Quantity |-> <<[text |-> "50,000", subcategory |-> "Currency", confidence |-> 9]>>]

\* extract_entities(text)
extract_entities(configured, outcome) ==
    LET client == LanguageClient(configured)
        body   == IF client.raised THEN client
                  ELSE IF outcome = "ok"
                       THEN ReturnValue([entities |-> EntitiesByCategory, entity_count |-> 1])
                  ELSE IF IsErrorResponse(outcome)
                       THEN ReturnValue([error |-> <<"Entity extraction failed: ">> \o ErrorMessage(outcome)])
                  ELSE RaiseExc(Exc(outcome, <<outcome>>))
    IN  IF body.raised THEN LanguageExcept("Entity extraction", body.exc) ELSE body

\* the summary loop of analyze_text_comprehensive over result["entities"].items():
\* for the entry "error" it indexes the characters of the message with "text"
SummaryLoopRaises(entities) == "error" \in DOMAIN entities /\ entities.error # <<>>

\* analyze_text_comprehensive(text)
analyze_text_comprehensive(configured, sentiment, entities) ==
    LET client == LanguageClient(configured)
        sentiment_part == IF IsErrorResponse(sentiment) THEN [error |-> ErrorMessage(sentiment)]
                          ELSE [overall |-> "negative",
                                confidence |-> [positive |-> 0, neutral |-> 1, negative |-> 9]]
        entities_part  == IF IsErrorResponse(entities) THEN [error |-> ErrorMessage(entities)]
                          ELSE EntitiesByCategory
        result == IF IsErrorResponse(entities)
                  THEN [text_analyzed |-> "t", sentiment |-> sentiment_part,
                        entities |-> entities_part, summary |-> "s"]
                  ELSE [text_analyzed |-> "t", sentiment |-> sentiment_part,
                        entities |-> entities_part, entity_count |-> 1, summary |-> "s"]
        body == IF client.raised THEN client
                ELSE IF sentiment \notin {"ok", "is_error", "is_error_blank"}
                     THEN RaiseExc(Exc(sentiment, <<sentiment>>))
                ELSE IF entities \notin {"ok", "is_error", "is_error_blank"}
                     THEN RaiseExc(Exc(entities, <<entities>>))
                ELSE IF SummaryLoopRaises(entities_part)
                     THEN RaiseExc(Exc("TypeError", <<"string indices must be integers">>))
                ELSE ReturnValue(result)
    IN  IF body.raised THEN LanguageExcept("Comprehensive analysis", body.exc) ELSE body

\* the shapes of the 'fields' entry of a stored analysis
FieldShapes == {"absent", "empty", "mapping", "null", "direct"}

Analysis(kind, shape) == [document_type |-> kind, fields |-> shape]

\* the field loop of the tool: fields.items() fails on a 'fields' entry that is None
ToolLoopRaises(docs) == \E i \in 1..Len(docs) : docs[i].analysis.fields = "null"

\* get_document_summary: `in fields` fails on None, .get fails on a value that is
\* no mapping
SummaryRaises(docs) == \E i \in 1..Len(docs) : docs[i].analysis.fields \in {"null", "direct"}

\* the exception get_document_summary leaves with: the first document it cannot read
SummaryError(docs) ==
    LET bad == {i \in 1..Len(docs) : docs[i].analysis.fields \in {"null", "direct"}}
        i   == CHOOSE x \in bad : \A y \in bad : x <= y
    IN  IF docs[i].analysis.fields = "null" THEN "TypeError" ELSE "AttributeError"

\* get_document_summary(session_id)
get_document_summary(s) ==
    LET docs == get_documents_result(store, s)
    IN  /\ last_access' = get_documents_touch(store, last_access, s, now)
        /\ ret' = IF docs = <<>>
                  THEN [op |-> "get_document_summary", session |-> s, raised |-> "none",
                        value |-> <<"No documents uploaded in this session.">>]
                  ELSE IF SummaryRaises(docs)
                  THEN [op |-> "get_document_summary", session |-> s,
                        raised |-> SummaryError(docs), value |-> <<>>]
                  ELSE [op |-> "get_document_summary", session |-> s, raised |-> "none",
                        value |-> <<"Documents uploaded in this session", Len(docs)>>]
        /\ UNCHANGED <<store, max_age, now, added>>

\* the except clause of get_analyzed_financial_documents_from_session
DocumentToolReraise(e) == RaiseExc(e)

DocumentToolExcept(e) ==
    ReturnValue([count |-> 0, summary |-> <<"Error retrieving documents: ">> \o e.message,
            documents |-> <<>>, error |-> e.message])

\* get_analyzed_financial_documents_from_session() for the session id of its context
document_tool(st, session_id) ==
    LET docs == get_documents_result(st, session_id)
        body == IF docs = <<>>
                THEN ReturnValue([count |-> 0, summary |-> <<"No documents have been uploaded in this session yet.">>,
                             documents |-> <<>>])
                ELSE IF ToolLoopRaises(docs)
                     THEN RaiseExc(Exc("AttributeError", <<"'NoneType' object has no attribute 'items'">>))
                ELSE IF SummaryRaises(docs)
                     THEN RaiseExc(Exc("AttributeError", <<"'str' object has no attribute 'get'">>))
                ELSE ReturnValue([count |-> Len(docs), summary |-> <<"Documents uploaded in this session">>,
                             documents |-> [i \in 1..Len(docs) |->
                                              [filename |-> docs[i].filename,
                                               document_type |-> docs[i].document_type]]])
    IN  IF body.raised THEN DocumentToolExcept(body.exc) ELSE body

ToolsInit == tool_ret = [tool |-> "none", failed |-> FALSE, result |-> ReturnValue([none |-> TRUE])]

ToolReturns(tool, failed, result) ==
    /\ tool_ret' = [tool |-> tool, failed |-> failed, result |-> result]
    /\ UNCHANGED <<analyzeVars, chatVars, restVars>>

SearchLendingPolicy ==
    /\ \E embedding \in EmbeddingOutcomes, search \in SearchOutcomes :
          ToolReturns("search_lending_policy",
                      embedding # "ok" \/ search \notin {"ok", "empty"},
                      search_lending_policy(embedding, search))
    /\ UNCHANGED storeVars

AnalyzeUserSentiment ==
    /\ \E configured \in BOOLEAN, outcome \in LanguageOutcomes :
          ToolReturns("analyze_user_sentiment", ~configured \/ outcome # "ok",
                      analyze_user_sentiment(configured, outcome))
    /\ UNCHANGED storeVars

ExtractEntities ==
    /\ \E configured \in BOOLEAN, outcome \in LanguageOutcomes :
          ToolReturns("extract_entities", ~configured \/ outcome # "ok",
                      extract_entities(configured, outcome))
    /\ UNCHANGED storeVars

AnalyzeTextComprehensive ==
    /\ \E configured \in BOOLEAN, sentiment \in LanguageOutcomes, entities \in LanguageOutcomes :
          tool_ret' = [tool |-> "analyze_text_comprehensive",
                       failed |-> ~configured \/ sentiment # "ok" \/ entities # "ok",
                       result |-> analyze_text_comprehensive(configured, sentiment, entities),
                       responses |-> [configured |-> configured, sentiment |-> sentiment,
                                      entities |-> entities]]
    /\ UNCHANGED <<storeVars, analyzeVars, chatVars, restVars>>

\* _store after the tool has gone through the list get_documents handed out
StoreAfterToolConsumed(st, session_id) == Cleared(st, session_id)

StoreAfterTool(st, session_id) == st

\* the tool runs in a turn bound to a session, or outside any turn (binding '')
GetAnalyzedDocuments ==
    /\ \E session_id \in RealSessions \cup {<<>>} :
          /\ store' = StoreAfterTool(store, session_id)
          /\ last_access' = get_documents_touch(store, last_access, session_id, now)
          /\ ret' = [op |-> "get_documents", session |-> session_id, raised |-> "none",
                     value |-> get_documents_result(store, session_id)]
          /\ ToolReturns("get_analyzed_financial_documents_from_session",
                         LET docs == get_documents_result(store, session_id)
                         IN  ToolLoopRaises(docs) \/ SummaryRaises(docs),
                         document_tool(store, session_id))
    /\ UNCHANGED <<max_age, now, added>>

GetDocumentSummary == (\E s \in SessionIds : get_document_summary(s)) /\ UNCHANGED otherThanStore

\* documents of every shape get into the registry of session A, well-formed ones
\* into that of session B
SeedAnyDocument ==
    /\ \E s \in RealSessions : \E shape \in (IF s = SessionA THEN FieldShapes ELSE {"mapping"}) :
          /\ Len(StoreGet(store, SessionA)) + Len(StoreGet(store, SessionB)) < MaxSeed
          /\ add_document(s, FileName(s, added[s] + 1), "bank_statement",
                          Analysis("bank_statement", shape))
    /\ UNCHANGED otherThanStore

-----------------------------------------------------------------------------
(* The provider clients and their retry settings                           *)

LLM_MAX_RETRIES == 2          \* ChatAnthropic / AzureChatOpenAI(max_retries=2)
EMBEDDING_MAX_RETRIES == 2    \* AzureOpenAI(max_retries=2)
OCR_RETRY_TOTAL == 3          \* DocumentIntelligenceClient(retry_total=3)

Providers == {"chat_completion", "embedding", "ocr"}

\* the retries the client of a provider is constructed with
RetryCap(p) ==
    IF p = "chat_completion" THEN LLM_MAX_RETRIES
    ELSE IF p = "embedding" THEN EMBEDDING_MAX_RETRIES
    ELSE OCR_RETRY_TOTAL

\* what one attempt of a provider call ends with
AttemptOutcomes == {"ok", "429", "408", "connection", "400"}

TransientErrors == {"429", "408", "connection"}

\* the client retries a transient failure while retries are left
ShouldRetryAlways(p, retries, outcome) == outcome \in TransientErrors

ShouldRetry(p, retries, outcome) == outcome \in TransientErrors /\ retries < RetryCap(p)

NoCall == [state |-> "idle", attempts |-> 0, retries |-> 0, error |-> "none"]

RetryInit == calls = [p \in Providers |-> NoCall]

\* a provider call is issued: the first attempt is about to be made
BeginCall(p) ==
    /\ calls[p].state # "trying"
    /\ calls' = [calls EXCEPT ![p] = [state |-> "trying", attempts |-> 0, retries |-> 0, error |-> "none"]]
    /\ UNCHANGED <<loop, storeVars, analyzeVars, chatVars, tool_ret>>

\* one attempt of the call comes back
Attempt(p, outcome) ==
    /\ calls[p].state = "trying"
    /\ calls' = [calls EXCEPT ![p] =
                    IF outcome = "ok"
                    THEN [state |-> "returned", attempts |-> @.attempts + 1, retries |-> @.retries,
                          error |-> "none"]
                    ELSE IF ShouldRetry(p, @.retries, outcome)
                    THEN [state |-> "trying", attempts |-> @.attempts + 1, retries |-> @.retries + 1,
                          error |-> outcome]
                    ELSE [state |-> "raised", attempts |-> @.attempts + 1, retries |-> @.retries,
                          error |-> outcome]]
    /\ UNCHANGED <<loop, storeVars, analyzeVars, chatVars, tool_ret>>

-----------------------------------------------------------------------------
(* Specifications                                                          *)

Init == StoreInit /\ AnalyzeInit /\ ChatInit /\ ToolsInit /\ RetryInit /\ LoopInit

\* the SessionDocumentStore under its callers
Next ==
    \/ AddDocument
    \/ GetDocuments
    \/ GetLatestDocument
    \/ ClearSession
    \/ CleanupAllExpired

Spec == Init /\ [][Next]_vars

\* document analysis and the upload endpoint
NextAnalyze ==
    \/ AnalyzeDocument
    \/ UploadDocument

SpecAnalyze == Init /\ [][NextAnalyze]_vars

\* concurrent chat turns over a registry that holds documents
NextChat ==
    \/ SeedDocument
    \/ \E task \in Tasks, message \in ChatMessages, session_id \in ChatSessionIds :
          ChatRequest(task, message, session_id)
    \/ \E task \in Tasks : FetchDocuments(task)
    \/ \E task \in Tasks : AgentReplies(task)
    \/ \E task \in Tasks : AgentRaises(task)
    \/ \E task \in Tasks : AgentTimesOut(task)

SpecChat == Init /\ [][NextChat]_vars

\* the tools, each invoked with every answer of its providers
NextTools ==
    \/ SeedAnyDocument
    \/ SearchLendingPolicy
    \/ AnalyzeUserSentiment
    \/ ExtractEntities
    \/ AnalyzeTextComprehensive
    \/ GetAnalyzedDocuments
    \/ GetDocumentSummary

SpecTools == Init /\ [][NextTools]_vars

\* the provider calls under failures on every attempt
NextRetry ==
    \/ \E p \in Providers : BeginCall(p)
    \/ \E p \in Providers, outcome \in AttemptOutcomes : Attempt(p, outcome)

SpecRetry == Init /\ [][NextRetry]_vars

\* chat requests arriving one after another and side by side
NextHistory ==
    \/ \E task \in Tasks, message \in ChatMessages, session_id \in ChatSessionIds :
          ChatRequest(task, message, session_id)
    \/ \E task \in Tasks : AgentReplies(task)
    \/ \E task \in Tasks : AgentTimesOut(task)
    \/ \E task \in Tasks : NextRequest(task)

SpecHistory == Init /\ [][NextHistory]_vars

\* chat turns under a timer that fires: asyncio.wait_for(..., timeout=90.0)
NextTurn ==
    \/ \E task \in Tasks, message \in ChatMessages, session_id \in ChatSessionIds :
          ChatRequest(task, message, session_id)
    \/ \E task \in Tasks : AgentReplies(task)
    \/ \E task \in Tasks : AgentRaises(task)
    \/ \E task \in Tasks : AgentTimesOut(task)

TimerFires == \A task \in Tasks : WF_vars(AgentTimesOut(task))

SpecTurn == Init /\ [][NextTurn]_vars /\ TimerFires

\* uploads and chat turns served by the one event loop
NextLoop ==
    \/ OcrCallBegins
    \/ OcrCallReturns
    \/ \E task \in Tasks, session_id \in RealSessions :
          ChatRequest(task, <<"h", "i">>, session_id)
    \/ \E task \in Tasks : AgentReplies(task)

SpecLoop == Init /\ [][NextLoop]_vars

\* the store alone, with expiry enabled and a clock that advances
InitExpiry == ExpiryStoreInit /\ AnalyzeInit /\ ChatInit /\ ToolsInit /\ RetryInit /\ LoopInit

NextExpiry ==
    \/ AddDocumentExpiring
    \/ GetDocuments
    \/ GetLatestDocument
    \/ ClearSession
    \/ CleanupAllExpired
    \/ Tick

SpecExpiry == InitExpiry /\ [][NextExpiry]_vars

\* the store with the class defaults (expiry disabled) and a clock that advances
SpecDefault == Init /\ [][NextExpiry]_vars

\* chat turns of clients whose session id carries surrounding whitespace, over a
\* registry filled under the same ids
SessionPadded == <<"A", " ">>

PaddedSessionIds == {SessionA, SessionPadded}

SeedPadded ==
    /\ \E s \in PaddedSessionIds :
          /\ Len(StoreGet(store, SessionA)) + Len(StoreGet(store, SessionPadded)) < MaxSeed
          /\ add_document(s, FileName(s, Len(StoreGet(store, s)) + 1), "bank_statement",
                          AnalysisOf("bank_statement"))
    /\ UNCHANGED otherThanStore

NextPadded ==
    \/ SeedPadded
    \/ \E task \in Tasks, session_id \in PaddedSessionIds :
          ChatRequest(task, <<"h", "i">>, session_id)
    \/ \E task \in Tasks : FetchDocuments(task)
    \/ \E task \in Tasks : AgentReplies(task)
    \/ \E task \in Tasks : NextRequest(task)

SpecPadded == Init /\ [][NextPadded]_vars

-----------------------------------------------------------------------------
(* Claims about analyze_document and upload_document, checked under        *)
(* SpecAnalyze                                                             *)

\* calls i < j are successive calls with the same content and document kind
Successive(i, j) ==
    /\ i < j
    /\ analyses[i].key = analyses[j].key
    /\ \A k \in (i + 1)..(j - 1) : analyses[k].key # analyses[i].key

Failed(i) == analyses[i].provider_raised # NoError

IsSuffix(s, u) == Len(s) <= Len(u) /\ SubSeq(u, Len(u) - Len(s) + 1, Len(u)) = s

\* C4: of two successive analyze_document calls with the same content and kind
\* the first, when it returns a result, leaves the second a cache hit that makes no
\* provider call and returns an equal result; a first call that missed called the
\* provider once, so the pair calls it exactly once.
C4_CacheIdempotence ==
    \A i, j \in 1..Len(analyses) :
        (Successive(i, j) /\ analyses[i].raised = NoError)
            => /\ analyses[j].hit
               /\ analyses[j].provider_calls = 0
               /\ analyses[j].raised = NoError
               /\ analyses[j].result = analyses[i].result
               /\ ~analyses[i].hit => analyses[i].provider_calls + analyses[j].provider_calls = 1

\* C4 witness: a miss that called the provider, then a hit on the same key, with
\* another key analyzed in between.
C4_Witness ==
    /\ Len(analyses) = 3
    /\ Successive(1, 3)
    /\ ~analyses[1].hit /\ analyses[1].raised = NoError /\ analyses[3].hit

\* the parts of C5 about the cache: a failed call writes no entry, and the next
\* call with the same content and kind misses and calls the provider again
C5_NoNegativeCaching ==
    \A i \in 1..Len(analyses) :
        Failed(i)
            => /\ ~analyses[i].hit
               /\ (\A j \in i..Len(analyses) : analyses[j].key = analyses[i].key => Failed(j))
                     => analyses[i].key \notin DOMAIN cache
               /\ \A j \in 1..Len(analyses) :
                     Successive(i, j) => ~analyses[j].hit /\ analyses[j].provider_calls = 1

\* C5 as claimed: a failed miss writes no cache entry, the caller gets the very
\* exception the provider or the extraction raised, and the next call misses again.
C5_ErrorUnchanged ==
    /\ C5_NoNegativeCaching
    /\ \A i \in 1..Len(analyses) : Failed(i) => analyses[i].raised = analyses[i].provider_raised

\* C5 as amended: a failed miss writes no cache entry and the next call misses
\* again; the caller gets the exception unchanged unless it is an HttpResponseError
\* (which reaches the caller as a new AzureError whose message ends with the
\* provider's message) or a ServiceResponseError (a new ServiceResponseError whose
\* message ends with the provider's text).
C5_ErrorClassified ==
    /\ C5_NoNegativeCaching
    /\ \A i \in 1..Len(analyses) :
          Failed(i) =>
            LET e == analyses[i].provider_raised
                r == analyses[i].raised
            IN  /\ r # NoError
                /\ e.type \notin {"HttpResponseError", "ServiceResponseError"} => r = e
                /\ e.type = "HttpResponseError"
                      => r.type = "AzureError" /\ r # e /\ IsSuffix(e.message, r.message)
                /\ e.type = "ServiceResponseError"
                      => r.type = "ServiceResponseError" /\ r # e /\ IsSuffix(e.message, r.message)

\* C5 witness: a rate-limited call, then the same file again: a miss that calls
\* the provider and fails in the extraction.
C5_Witness ==
    /\ Len(analyses) >= 2
    /\ analyses[1].provider_raised.type = "HttpResponseError"
    /\ analyses[1].provider_raised.status = 429
    /\ Successive(1, 2)
    /\ analyses[2].provider_raised.type = "AttributeError"
    /\ analyses[1].key \notin DOMAIN cache

Min(a, b) == IF a < b THEN a ELSE b

\* C10 as claimed: every successful upload adds one document to the registry of
\* the client's session: a session with k successful uploads holds min(k, M)
\* documents.
C10_UploadRegisters ==
    \A s \in RealSessions :
        Len(StoreGet(store, s)) = Min(uploads.ok[s], MAX_DOCUMENTS_PER_SESSION)

-----------------------------------------------------------------------------
(* Claims about chat turns, checked under SpecChat                         *)

\* C6 as claimed: a turn whose agent invocation ran into the 90 s budget hands its
\* caller a timeout message (the apology raised for the timeout, or the timeout
\* message of the error classification), never the generic error message.
C6_TimeoutMessage ==
    \A task \in Tasks :
        turns[task].cause = "timeout"
            => /\ turns[task].raised \in {TimeoutApology, MsgTimeout}
               /\ turns[task].raised # MsgGeneric

UserMessages == {MsgTimeout, MsgRateLimit, MsgConnection, MsgGeneric}

\* C7: the text a failed turn shows the client is one of the fixed messages behind
\* the fixed prefix of the endpoint, holds no text of the internal exception, and
\* is the same for two failures of the same class.
C7_NoInternalText ==
    \A task \in Tasks :
        turns[task].response.status = 500
            => /\ turns[task].raised \in UserMessages
               /\ turns[task].response.text = DetailPrefix \o turns[task].raised
               /\ ~Contains(turns[task].internal, turns[task].response.text)
               /\ \A other \in Tasks :
                     (turns[other].response.status = 500
                        /\ turns[other].branch = turns[task].branch)
                        => turns[other].response.text = turns[task].response.text

\* C7 witness: two failures of the generic class with different internal texts.
C7_Witness ==
    /\ turns[1].response.status = 500 /\ turns[2].response.status = 500
    /\ turns[1].internal = ErrApiKey /\ turns[2].internal = ErrTimedOut
    /\ turns[1].branch = "generic" /\ turns[2].branch = "generic"

\* C9: the document-fetch tool of a turn reads the registry of that turn's session,
\* whatever other turns run in between, and the binding is set while the agent is
\* invoked.
C9_BindingPerTurn ==
    \A task \in Tasks :
        /\ turns[task].pc = "invoking" => ctx[task] = turns[task].session
        /\ \A i \in 1..Len(turns[task].fetched) :
              /\ turns[task].fetched[i].session_id = turns[task].session
              /\ \A f \in turns[task].fetched[i].filenames : f.owner = turns[task].session

\* C9 witness: two turns for different sessions are in flight together, and each
\* has fetched the documents of its session.
C9_Witness ==
    /\ turns[1].pc = "invoking" /\ turns[2].pc = "invoking"
    /\ turns[1].session = SessionA /\ turns[2].session = SessionB
    /\ Len(turns[1].fetched) = 1 /\ turns[1].fetched[1].count = 1
    /\ Len(turns[2].fetched) = 1 /\ turns[2].fetched[1].count = 1

-----------------------------------------------------------------------------
(* Claims about the tools, checked under SpecTools                         *)

\* the payload holds an 'error' entry, at the top or under the part that failed
HasErrorEntry(payload) ==
    \/ "error" \in DOMAIN payload
    \/ "sentiment" \in DOMAIN payload /\ "error" \in DOMAIN payload.sentiment
    \/ "entities" \in DOMAIN payload /\ "error" \in DOMAIN payload.entities

\* C8: no tool invocation raises; one whose provider call or registry access
\* failed returns a payload with an 'error' entry.
C8_ToolsReturnErrors ==
    /\ ~tool_ret.result.raised
    /\ tool_ret.failed => HasErrorEntry(tool_ret.result.payload)

\* C8 witness: the document-fetch tool met a stored analysis it cannot read and
\* returned its error payload.
C8_Witness ==
    /\ tool_ret.tool = "get_analyzed_financial_documents_from_session"
    /\ tool_ret.failed
    /\ "error" \in DOMAIN tool_ret.result.payload
    /\ tool_ret.result.payload.count = 0

-----------------------------------------------------------------------------
(* Claims about the SessionDocumentStore, checked under Spec               *)

AddAccepted(s) ==
    ret'.op = "add_document" /\ ret'.raised = "none" /\ ret'.session = s

\* C1 (step): add_document on a session holding exactly MAX_DOCUMENTS_PER_SESSION
\* documents drops the oldest one, keeps the others in order and appends the new
\* document last.
C1_EvictStep ==
    \A s \in SessionIds :
        (AddAccepted(s) /\ s \in DOMAIN store /\ Len(store[s]) = MAX_DOCUMENTS_PER_SESSION)
            => /\ s \in DOMAIN store'
               /\ store'[s] = SubSeq(store[s], 2, MAX_DOCUMENTS_PER_SESSION) \o ret'.value
               /\ Len(store'[s]) = MAX_DOCUMENTS_PER_SESSION

\* C1 (consequence): after M+1 documents were inserted into a session it holds
\* exactly M documents and the first inserted one is absent.
C1_AfterOverflow ==
    \A s \in RealSessions :
        added[s] = MAX_DOCUMENTS_PER_SESSION + 1
            => /\ s \in DOMAIN store
               /\ Len(store[s]) = MAX_DOCUMENTS_PER_SESSION
               /\ FileName(s, 1) \notin FileNames(store[s])
               /\ FileNames(store[s]) = {FileName(s, n) : n \in 2..(MAX_DOCUMENTS_PER_SESSION + 1)}

\* C1: add_document at capacity evicts exactly the oldest document (FIFO) and
\* appends the new one; M+1 inserts leave M documents without the first one.
C1_FifoEviction == [][C1_EvictStep]_vars /\ []C1_AfterOverflow

\* C1 witness: the 21st document went into session A and evicted the first.
C1_Witness ==
    /\ added[SessionA] = MAX_DOCUMENTS_PER_SESSION + 1
    /\ ret.op = "add_document" /\ ret.session = SessionA /\ ret.raised = "none"
    /\ Len(store[SessionA]) = MAX_DOCUMENTS_PER_SESSION

\* C2: in every reachable state every session's document list holds at most
\* MAX_DOCUMENTS_PER_SESSION documents.
C2_Capped ==
    \A s \in DOMAIN store : Len(store[s]) <= MAX_DOCUMENTS_PER_SESSION

\* C2 witness: a session is full after more than M documents were added to it.
C2_Witness ==
    /\ added[SessionB] = MAX_DOCUMENTS_PER_SESSION + 2
    /\ Len(store[SessionB]) = MAX_DOCUMENTS_PER_SESSION

\* C3 (read): no list of the store, and no list get_documents returns, holds a
\* document that was added under another session.
C3_ReadIsolation ==
    /\ \A s \in DOMAIN store : \A i \in 1..Len(store[s]) : store[s][i].filename.owner = s
    /\ ret.op = "get_documents"
          => \A i \in 1..Len(ret.value) : ret.value[i].filename.owner = ret.session

\* C3 (frame): add_document(A, ...) and clear_session(A) leave the list of every
\* other session as it was (expiry disabled).
C3_Frame ==
    \A s \in SessionIds :
        (max_age = None /\ ret'.op \in {"add_document", "clear_session"} /\ ret'.session = s)
            => \A x \in SessionIds \ {s} :
                   /\ (x \in DOMAIN store') = (x \in DOMAIN store)
                   /\ StoreGet(store', x) = StoreGet(store, x)

\* C3: registry isolation: documents of session A never show up under session B,
\* and adding to or clearing A leaves every other session unchanged.
C3_Isolation == []C3_ReadIsolation /\ [][C3_Frame]_vars

\* C3 witness: both sessions hold documents and get_documents(B) just returned B's.
C3_Witness ==
    /\ SessionA \in DOMAIN store /\ Len(store[SessionA]) >= 2
    /\ ret.op = "get_documents" /\ ret.session = SessionB /\ Len(ret.value) >= 2

\* the files a session retains after `n` accepted adds, in insertion order
RetainedFiles(s, n) ==
    LET k == Min(n, MAX_DOCUMENTS_PER_SESSION)
    IN  [i \in 1..k |-> FileName(s, n - k + i)]

\* C13: get_documents(s) returns exactly the documents session s retains, in
\* insertion order; get_latest_document(s) returns the most recently added one, or
\* none when the session is unknown or empty.
C13_ReadOrder ==
    /\ ret.op = "get_documents"
          => /\ ret.value = StoreGet(store, ret.session)
             /\ [i \in 1..Len(ret.value) |-> ret.value[i].filename]
                   = RetainedFiles(ret.session, added[ret.session])
    /\ ret.op = "get_latest_document"
          => IF added[ret.session] = 0
             THEN ret.value = None
             ELSE /\ Len(ret.value) = 1
                  /\ ret.value[1].filename = FileName(ret.session, added[ret.session])
                  /\ ret.value[1] = store[ret.session][Len(store[ret.session])]

\* C13 witness: after an eviction get_latest_document(A) returned the newest file.
C13_Witness ==
    /\ ret.op = "get_latest_document" /\ ret.session = SessionA
    /\ added[SessionA] > MAX_DOCUMENTS_PER_SESSION
    /\ ret.value # None
    /\ ret.value[1].filename = FileName(SessionA, added[SessionA])

\* C14 (step): clear_session(s) does not raise and leaves no documents under s; on
\* an unknown session, and when it directly follows a clear_session(s), it changes
\* nothing.
C14_ClearStep ==
    \A s \in SessionIds :
        (ret'.op = "clear_session" /\ ret'.session = s)
            => /\ ret'.raised = "none"
               /\ s \notin DOMAIN store'
               /\ get_documents_result(store', s) = <<>>
               /\ s \notin DOMAIN store => (store' = store /\ last_access' = last_access)
               /\ (ret.op = "clear_session" /\ ret.session = s)
                     => (store' = store /\ last_access' = last_access)

\* C14: clear_session is idempotent and a no-op on an unknown session.
C14_ClearIdempotent == [][C14_ClearStep]_vars

\* C14 witness: session A, which held documents, has been cleared while session B
\* keeps its own.
C14_Witness ==
    /\ ret.op = "clear_session" /\ ret.session = SessionA
    /\ SessionA \in DOMAIN last_access
    /\ SessionA \notin DOMAIN store
    /\ SessionB \in DOMAIN store /\ Len(store[SessionB]) >= 1

-----------------------------------------------------------------------------
(* Claims about the store with expiry enabled, checked under SpecExpiry    *)

\* C11: add_document with an empty or whitespace-only session id raises ValueError
\* and leaves _store and _last_access as they were, expired sessions included (the
\* cleanup has not run); get_documents with the empty id returns the empty list
\* and does not raise.
C11_EmptyIdRejected ==
    [][/\ (ret'.op = "add_document" /\ ret'.session \in {<<>>, <<" ">>})
            => /\ ret'.raised = "ValueError"
               /\ store' = store
               /\ last_access' = last_access
       /\ (ret'.op = "get_documents" /\ ret'.session = <<>>)
            => /\ ret'.raised = "none"
               /\ ret'.value = <<>>
               /\ store' = store]_vars

\* C11 witness: a blank id was rejected while an expired session was waiting for
\* the cleanup, and that session is still stored.
C11_Witness ==
    /\ ret.op = "add_document"
    /\ ret.session = <<" ">>
    /\ ret.raised = "ValueError"
    /\ ExpiredSessions(last_access, max_age, now) \cap DOMAIN store # {}

-----------------------------------------------------------------------------
(* Claims about the registry holding documents of every shape (SpecTools)  *)

\* C12: get_documents, get_latest_document, clear_session and get_document_summary
\* never raise, whatever the stored analysis looks like, and for an unknown
\* session they return the empty list, none, nothing and the 'no documents'
\* summary.
C12_RegistryTotal ==
    ret.op \in {"get_documents", "get_latest_document", "clear_session", "get_document_summary"}
        => /\ ret.raised = "none"
           /\ (ret.session \notin DOMAIN store /\ ret.op # "get_document_summary")
                 => ret.value = <<>>
           /\ (ret.session \notin DOMAIN store /\ ret.op = "get_document_summary")
                 => ret.value = <<"No documents uploaded in this session.">>

-----------------------------------------------------------------------------
(* Claims about the provider calls, checked under SpecRetry                *)

\* C15 (state): no call has been retried more often than its client's setting:
\* 2 for chat completion and embedding, 3 for OCR; a call makes one attempt more
\* than it was retried, until it ends.
C15_Ceiling ==
    /\ calls["chat_completion"].retries <= 2
    /\ calls["embedding"].retries <= 2
    /\ calls["ocr"].retries <= 3
    /\ \A p \in Providers :
          calls[p].state \in {"returned", "raised"} => calls[p].attempts = calls[p].retries + 1

\* C15 (step): a transient failure of the attempt made when the retries are used up
\* ends the call with that error.
C15_Surfaces ==
    \A p \in Providers :
        (calls[p].state = "trying" /\ calls[p].retries = RetryCap(p) /\ calls'[p] # calls[p]
           /\ calls'[p].error # "none")
            => /\ calls'[p].state = "raised"
               /\ calls'[p].error \in AttemptOutcomes \ {"ok"}

\* C15: a provider call failing with a transient error on every attempt is retried
\* no more often than the configured cap and then raises.
C15_RetryCeiling == []C15_Ceiling /\ [][C15_Surfaces]_vars

\* C15 witness: every attempt of an OCR call and of a chat completion failed with
\* a transient error and both calls raised after their last retry.
C15_Witness ==
    /\ calls["ocr"].state = "raised" /\ calls["ocr"].error = "429"
    /\ calls["ocr"].retries = OCR_RETRY_TOTAL /\ calls["ocr"].attempts = OCR_RETRY_TOTAL + 1
    /\ calls["chat_completion"].state = "raised" /\ calls["chat_completion"].error = "408"
    /\ calls["chat_completion"].retries = LLM_MAX_RETRIES

-----------------------------------------------------------------------------
(* Claims about the checkpointed history, checked under SpecHistory        *)

\* the turns are those of one session, in the order they were submitted
OwnTurnsInOrder(h, s) ==
    /\ \A i \in 1..Len(h) : h[i].session = s
    /\ \A i, j \in 1..Len(h) : i < j => h[i].n < h[j].n

\* the accepted turns: in flight or finished after the agent was invoked
AcceptedTasks == {task \in Tasks : turns[task].pc # "idle" /\ turns[task].cause # "rejected"}

\* C16 (as claimed): the history saved under a session id is the sequence of all
\* completed turns of that session, and what a turn has seen is the part of it
\* completed before the turn started.
C16_HistoryComplete ==
    /\ \A s \in Threads : checkpoints.saved[s] = checkpoints.completed[s]
    /\ \A task \in AcceptedTasks :
          turns[task].seen
             = SubSeq(checkpoints.completed[turns[task].session], 1, Len(turns[task].seen))

\* C16: a turn sees only turns submitted under its own session id, in order; and
\* as long as the turns of a session have not overlapped, the history saved under
\* the session id is the sequence of all completed turns of that session, so the
\* next turn sees every one of them.
C16_HistoryPerThread ==
    /\ \A s \in Threads :
          /\ OwnTurnsInOrder(checkpoints.saved[s], s)
          /\ ~checkpoints.overlapped[s] => checkpoints.saved[s] = checkpoints.completed[s]
    /\ \A task \in AcceptedTasks :
          /\ OwnTurnsInOrder(turns[task].seen, turns[task].session)
          /\ ~checkpoints.overlapped[turns[task].session]
                => turns[task].seen
                     = SubSeq(checkpoints.completed[turns[task].session], 1, Len(turns[task].seen))
          /\ (~checkpoints.overlapped[turns[task].session] /\ turns[task].pc = "invoking")
                => turns[task].seen = checkpoints.completed[turns[task].session]

\* C16 witness: a turn of session A sees the two earlier turns of A, which did not
\* overlap, and not the completed turn of session B.
C16_Witness ==
    \E task \in Tasks :
        /\ turns[task].pc = "invoking" /\ turns[task].session = SessionA
        /\ ~checkpoints.overlapped[SessionA]
        /\ Len(turns[task].seen) = 2
        /\ Len(checkpoints.completed[SessionB]) >= 1

-----------------------------------------------------------------------------
(* Claims about the tools and the registry, checked under SpecTools        *)

\* C17 (step): a step in which a tool returned, or in which the registry was read
\* for the document tool, leaves every session's document list as it was; the
\* lists change by add_document only.
C17_ToolStep ==
    /\ (tool_ret' # tool_ret \/ ret'.op = "get_documents") => store' = store
    /\ store' # store => (ret'.op = "add_document" /\ tool_ret' = tool_ret)

\* C17: invoking a tool declared to the agent leaves the registry's document lists
\* unchanged.
C17_ToolsReadOnly == [][C17_ToolStep]_vars

\* C17 witness: the document tool returned both documents of session A, which are
\* still stored.
C17_Witness ==
    /\ tool_ret.tool = "get_analyzed_financial_documents_from_session"
    /\ ~tool_ret.failed
    /\ tool_ret.result.payload.count = 2
    /\ ret.op = "get_documents" /\ ret.session = SessionA
    /\ Len(StoreGet(store, SessionA)) = 2

-----------------------------------------------------------------------------
(* Claims about uploads and turns on the event loop, checked under SpecLoop *)

\* a chat turn of a session other than the uploading one starts
OtherSessionStarts ==
    \E task \in Tasks, session_id \in RealSessions \ {loop.session} :
        ChatRequest(task, <<"h", "i">>, session_id)

\* a chat turn of a session other than the uploading one gets its reply
OtherSessionProgresses ==
    \E task \in Tasks : turns[task].session # loop.session /\ AgentReplies(task)

\* C18: while an upload of one session waits for the OCR provider, a chat turn of
\* another session can start (when a request is pending) and a turn of another
\* session that is in flight can get its reply.
C18_NoBlocking ==
    loop.holder = "upload"
        => /\ (\E task \in Tasks : turns[task].pc = "idle") => ENABLED OtherSessionStarts
           /\ (\E task \in Tasks : turns[task].pc = "invoking" /\ turns[task].session # loop.session)
                 => ENABLED OtherSessionProgresses

-----------------------------------------------------------------------------
(* Claims about the end of a chat turn, checked under SpecTurn             *)

\* the three ways a turn ends
EndsWithReply(turn) ==
    turn.response.status = 200 /\ turn.response.text = AgentReply /\ turn.raised = <<>>

EndsWithTimeoutMessage(turn) ==
    turn.response.status = 500 /\ turn.raised = MsgTimeout

EndsWithErrorMessage(turn) ==
    turn.response.status = 500 /\ turn.raised \in {MsgRateLimit, MsgConnection, MsgGeneric}

\* C19 (state): a finished turn ended in exactly one of the three outcomes.
C19_OneOutcome ==
    \A task \in Tasks :
        (turns[task].pc = "done" /\ turns[task].cause # "rejected")
            => Cardinality({o \in {"reply", "timeout", "error"} :
                               \/ o = "reply" /\ EndsWithReply(turns[task])
                               \/ o = "timeout" /\ EndsWithTimeoutMessage(turns[task])
                               \/ o = "error" /\ EndsWithErrorMessage(turns[task])}) = 1

-----------------------------------------------------------------------------
(* Claims about the chat endpoint, checked under SpecHistory               *)

Blank(text) == Strip(text) = <<>>

\* C20 (step): a request with a blank message or session id is answered with 400 and
\* leaves the binding and every history alone; any other request reaches the agent.
C20_RejectStep ==
    \A task \in Tasks :
        (turns[task].pc = "idle" /\ turns'[task].pc # "idle")
            => IF Blank(turns'[task].request_message) \/ Blank(turns'[task].request_session)
               THEN /\ turns'[task].pc = "done"
                    /\ turns'[task].response.status = 400
                    /\ turns'[task].response.text \in {DetailEmptyMessage, DetailNoSession}
                    /\ ctx' = ctx
                    /\ checkpoints' = checkpoints
               ELSE turns'[task].pc = "invoking"

\* C20 (state): a rejected request keeps its 400, and a successful response carries
\* the session id of the request.
C20_Responses ==
    \A task \in Tasks :
        /\ turns[task].cause = "rejected" => turns[task].response.status = 400
        /\ turns[task].response.status = 200
              => turns[task].response.session_id = turns[task].request_session

\* C20: blank message or session id: 400 without invoking the agent; the 400 stays
\* a 400; a successful response echoes the request's session id.
C20_EndpointValidation == [][C20_RejectStep]_vars /\ []C20_Responses

\* C20 witness: after a turn of session A completed, a request with a blank session
\* id was rejected and the history of A is as the turn left it.
C20_Witness ==
    \E task, other \in Tasks :
        /\ turns[task].cause = "rejected" /\ turns[task].request_session = <<" ">>
        /\ turns[task].response.status = 400
        /\ turns[other].pc = "done" /\ turns[other].response.status = 200
        /\ turns[other].response.session_id = SessionA
        /\ Len(checkpoints.saved[SessionA]) = 1

-----------------------------------------------------------------------------
(* Further claims about analyze_document, checked under SpecAnalyze        *)

\* C21: whenever a caller has received the result of a cache miss, the cache holds
\* the entry of that key, and the entry reads back as that result.
C21_StoreThenReturn ==
    \A i \in 1..Len(analyses) :
        (~analyses[i].hit /\ analyses[i].raised = NoError)
            => /\ analyses[i].key \in DOMAIN cache
               /\ CacheLoad(cache, analyses[i].key) = analyses[i].result

\* C21 witness: the last call was a miss that returned a result, after a failed
\* call on the same key had left the cache without an entry.
C21_Witness ==
    /\ Len(analyses) = 2
    /\ Successive(1, 2)
    /\ Failed(1)
    /\ ~analyses[2].hit /\ analyses[2].raised = NoError
    /\ analyses[2].key \in DOMAIN cache

-----------------------------------------------------------------------------
(* Further claims about the SessionDocumentStore, checked under Spec       *)

\* C22 (step): one accepted add_document makes the list of its session one longer,
\* or keeps it at the limit; the new document is the last one, at most one document
\* leaves the list, and none leaves it below the limit.
C22_AddAtomic ==
    \A s \in RealSessions :
        AddAccepted(s)
            => LET before  == StoreGet(store, s)
                   after   == store'[s]
                   evicted == FileNames(before) \ FileNames(after)
               IN  /\ Len(after) = Min(Len(before) + 1, MAX_DOCUMENTS_PER_SESSION)
                   /\ after[Len(after)] = ret'.value[1]
                   /\ after[Len(after)].filename \notin FileNames(before)
                   /\ Cardinality(evicted) <= 1
                   /\ Len(before) < MAX_DOCUMENTS_PER_SESSION => evicted = {}
                   /\ Cardinality(FileNames(after)) = Len(after)

\* C22 (state): k accepted adds to a session leave min(k, M) documents, the last
\* min(k, M) ones that were added: no insert is lost.
C22_NoneLost ==
    \A s \in RealSessions :
        s \in DOMAIN store
            => /\ Len(store[s]) = Min(added[s], MAX_DOCUMENTS_PER_SESSION)
               /\ [i \in 1..Len(store[s]) |-> store[s][i].filename] = RetainedFiles(s, added[s])

-----------------------------------------------------------------------------
(* Claims about the store with its defaults while time passes (SpecDefault) *)

\* C23 (step): with expiry disabled a session loses documents only in its own
\* clear_session or in an add_document on itself at the limit; cleanup_all_expired
\* changes nothing and returns 0.
C23_RemovalStep ==
    /\ \A x \in DOMAIN store :
          FileNames(store[x]) \ FileNames(StoreGet(store', x)) # {}
              => \/ ret'.op = "clear_session" /\ ret'.session = x
                 \/ /\ ret'.op = "add_document" /\ ret'.session = x
                    /\ Len(store[x]) = MAX_DOCUMENTS_PER_SESSION
    /\ (ret'.op = "cleanup_all_expired" /\ ret # ret')
          => /\ ret'.value = <<0>>
             /\ store' = store
             /\ last_access' = last_access

\* C23: in the default configuration nothing is pruned by age.
C23_DefaultNoExpiry ==
    [][C23_RemovalStep]_vars /\ [](ret.op = "cleanup_all_expired" => ret.value = <<0>>)

\* C23 witness: cleanup_all_expired returned 0 although session A was last accessed
\* hours ago, and A still holds its documents.
C23_Witness ==
    /\ max_age = None
    /\ ret.op = "cleanup_all_expired" /\ ret.value = <<0>>
    /\ now = MaxClock
    /\ SessionA \in DOMAIN store /\ Len(store[SessionA]) = 2
    /\ last_access[SessionA] = 0

-----------------------------------------------------------------------------
(* Claims about the errors of analyze_document, checked under SpecAnalyze  *)

\* exception types of the provider's SDK (azure.core.exceptions)
ProviderExceptionTypes == {"HttpResponseError", "ServiceResponseError", "ServiceRequestError"}

\* the class an error that left analyze_document belongs to, by its type and the
\* fixed beginning of its message
ErrorClass(r) ==
    IF r.type = "AzureError" /\ r.message[1] = "Service rate limit exceeded. Please try again later. "
    THEN "rate-limited"
    ELSE IF r.type = "AzureError"
            /\ r.message[1] = "Request timed out. The document may be too large or complex. "
    THEN "timeout"
    ELSE IF r.type = "AzureError" /\ r.message[1] = "Document Intelligence service error: "
    THEN "bad-request"
    ELSE IF r.message # <<>> /\ r.message[1] = "Unable to connect to Document Intelligence service: "
    THEN "service-unavailable"
    ELSE "unclassified"

\* C24: every failed provider call reaches the caller as an error of the class of
\* its failure kind (429, 408, other status, connectivity, anything else), and
\* never as an exception of a type of the provider's SDK.
C24_ClosedTaxonomy ==
    \A i \in 1..Len(analyses) :
        Failed(i)
            => LET e == analyses[i].provider_raised
                   r == analyses[i].raised
               IN  /\ ErrorClass(r) =
                         (IF e.type = "HttpResponseError" /\ e.status = 429 THEN "rate-limited"
                          ELSE IF e.type = "HttpResponseError" /\ e.status = 408 THEN "timeout"
                          ELSE IF e.type = "HttpResponseError" THEN "bad-request"
                          ELSE IF e.type = "ServiceResponseError" THEN "service-unavailable"
                          ELSE "unclassified")
                   /\ r.type \notin ProviderExceptionTypes

-----------------------------------------------------------------------------
(* Claims about _last_access, checked under Spec and SpecExpiry            *)

\* C25: a session has a last-access record exactly when it has a document list.
C25_AccessIffDocuments == DOMAIN last_access = DOMAIN store

\* the age of a session's last access is beyond the threshold
TooOld(x) == now - last_access[x] > MaxAgeHours

\* C26 (step): an accepted add_document first removes every session last accessed
\* longer ago than the threshold, the session it adds to included, which then holds
\* the new document only; every other session keeps its documents.
C26_PruneStep ==
    \A s \in RealSessions :
        (AddAccepted(s) /\ now' = now /\ <<store, ret>> # <<store', ret'>>)
            => /\ \A x \in (DOMAIN store) \ {s} :
                     IF TooOld(x) THEN x \notin DOMAIN store'
                     ELSE x \in DOMAIN store' /\ store'[x] = store[x]
               /\ (s \in DOMAIN store /\ TooOld(s)) => store'[s] = ret'.value
               /\ (s \in DOMAIN store /\ ~TooOld(s)) => store'[s] = store[s] \o ret'.value
               /\ last_access'[s] = now

\* C26: with expiry enabled add_document prunes before it inserts.
C26_PruneBeforeInsert == [][C26_PruneStep]_vars

\* C26 witness: add_document on session A found A itself expired and a second
\* session still fresh: A holds the new document only, B keeps its two.
C26_Witness ==
    /\ ret.op = "add_document" /\ ret.session = SessionA /\ ret.raised = "none"
    /\ ret.pruned = {SessionA}
    /\ store[SessionA] = ret.value
    /\ SessionB \in DOMAIN store /\ Len(store[SessionB]) = 2


\* C27: after an upload request finishes, whatever its path (analysis succeeded,
\* analysis failed, reading or writing the uploaded content failed), no temporary
\* file created by that request remains on disk.
C27_TempFileRemoved ==
    uploads.last \in {"success", "failed"} => ~uploads.temp_left


\* C28: when exactly one of the two provider responses of analyze_text_comprehensive
\* (sentiment, entity recognition) is an error response and the other succeeds, the
\* payload holds the successful part and an error entry for the failed part, and is
\* not a single overall error.
C28_OneResponseFailed ==
    /\ tool_ret.tool = "analyze_text_comprehensive"
    /\ tool_ret.responses.configured
    /\ \/ IsErrorResponse(tool_ret.responses.sentiment) /\ tool_ret.responses.entities = "ok"
       \/ tool_ret.responses.sentiment = "ok" /\ IsErrorResponse(tool_ret.responses.entities)

C28_PartialResults ==
    C28_OneResponseFailed
        => LET payload == tool_ret.result.payload
           IN  /\ ~tool_ret.result.raised
               /\ "error" \notin DOMAIN payload
               /\ {"sentiment", "entities"} \subseteq DOMAIN payload
               /\ IF IsErrorResponse(tool_ret.responses.sentiment)
                  THEN /\ DOMAIN payload.sentiment = {"error"}
                       /\ "error" \notin DOMAIN payload.entities
                  ELSE /\ "overall" \in DOMAIN payload.sentiment
                       /\ DOMAIN payload.entities = {"error"}


\* C29: the chat path and the registry match session ids the same way: the
\* document-fetch tool of a turn submitted with session id s returns the documents
\* add_document stored under s, surrounding whitespace included.
C29_FetchStep ==
    \A task \in Tasks :
        Len(turns'[task].fetched) > Len(turns[task].fetched)
            => turns'[task].fetched[Len(turns'[task].fetched)].filenames
                   = FileNames(StoreGet(store, turns[task].request_session))

C29_SameMatching == [][C29_FetchStep]_vars


\* C30: AgentService.chat chooses the message of a failure by a fixed priority over
\* the internal error text: timeout, then rate limit / 429, then connection /
\* network, otherwise the generic message; every failure gets exactly one of the
\* four messages, and a text matching several classes gets the earliest class.
FailureClasses == <<"timeout", "rate_limit", "connection">>

ClassMatches(class, text) ==
    IF class = "timeout" THEN Contains(KwTimeout, Lower(text))
    ELSE IF class = "rate_limit" THEN Contains(KwRateLimit, Lower(text)) \/ Contains(Kw429, text)
    ELSE Contains(KwConnection, Lower(text)) \/ Contains(KwNetwork, Lower(text))

MatchedClasses ==
    [text \in InternalErrors \cup {TimeoutApology} |->
        {i \in DOMAIN FailureClasses : ClassMatches(FailureClasses[i], text)}]

EarliestClass(text) ==
    LET m == MatchedClasses[text]
    IN  IF m = {} THEN "generic" ELSE FailureClasses[CHOOSE i \in m : \A j \in m : i <= j]

C30_MessagePriority ==
    \A task \in Tasks :
        (turns[task].pc = "done" /\ turns[task].cause \in {"error", "timeout"})
            => /\ turns[task].raised = BranchMessage(EarliestClass(turns[task].internal),
                                                     turns[task].internal)
               /\ turns[task].raised \in {MsgTimeout, MsgRateLimit, MsgConnection, MsgGeneric}

C30_Witness ==
    \E task \in Tasks :
        /\ turns[task].pc = "done" /\ turns[task].cause = "error"
        /\ turns[task].internal = ErrReadTimeout
        /\ MatchedClasses[ErrReadTimeout] = {1, 3}
        /\ turns[task].raised = MsgTimeout

=============================================================================
